---- MODULE Spec2Model ----
(***************************************************************************)
(* Astor: the tamper-evident ledger (src/ledger.rs) and the consensus      *)
(* engine (src/network/consensus.rs), as state machines.                   *)
(***************************************************************************)
EXTENDS Integers, Sequences, FiniteSets, TLC

(***************************************************************************)
(* Bounds of the model.                                                    *)
(***************************************************************************)
\* Longest ledger explored.
MaxEntries == 3
\* Width, in bits, of the machine word standing for u64.
U64Bits == 2
\* Latest reading of the wall clock.
MaxClock == 1

\* Longest ledger explored when a stored entry is overwritten.
MaxTamperedEntries == 2
\* Longest pending-transaction queue explored.
MaxPending == 10
\* Most round messages the nodes of the network take into account, in all.
MaxNetHandled == 2
\* Longest ledger explored next to a consensus round.
MaxSystemEntries == 1
\* Most successful issue_currency calls explored.
MaxDecisions == 2
\* Longest batch handed to calculate_digest.
MaxBatch == 3
\* Longest queue a node proposes from, and most proposals it broadcasts.
MaxQueued == 2
MaxBroadcasts == 2
\* Latest view an engine computes its primary for.
MaxView == 2
\* Longest ledger explored when it is read between writes.
MaxReadEntries == 1
\* Width of a block height, and most block requests explored.
HeightBits == 9
MaxRequests == 4
MaxSyncRequests == 2
\* Most batches a call of sync_blocks is given, short of u64::MAX.
MaxBatches == 3

U64_MAX == 2^U64Bits - 1

AccountIds == {"A", "B"}
Amounts == {0, 1, U64_MAX}
TransactionIds == {"tx"}
AdminIds == {"root"}

VARIABLES
    \* struct Ledger
    entries,
    account_balances,
    total_supply,
    \* environment of the ledger: uuid source, wall clock, the last call made
    \* and the value it returned
    uuid_next,
    clock,
    op,
    result,
    \* set once an entry was overwritten behind the API's back
    tampered,
    \* struct ConsensusEngine, one per validator node
    state,
    current_view,
    current_sequence,
    is_primary,
    validators,
    pending_transactions,
    prepare_messages,
    commit_messages,
    committed_blocks,
    \* the write half of the pending_transactions RwLock: its holder, or "free"
    pending_lock,
    \* each caller's position in add_transaction, and the transaction it passed
    pc,
    submitted,
    \* messages handed to broadcast_consensus_message
    broadcast_log,
    \* the round's messages each node was handed, in protocol order
    round_log,
    \* whether a message outside the protocol was handed to an engine, whether one
    \* inside it followed, and what handle_consensus_message returned last
    handled,
    \* struct AstorSystem: admin_manager.admins, account_manager.accounts,
    \* transaction_manager.transactions and the two fields of central_bank
    admins,
    accounts,
    transactions,
    total_money_supply,
    monetary_policy_decisions,
    \* the last call made on the AstorSystem, its arguments and what it returned
    call,
    \* two transaction batches, and the digests computed for them
    batches,
    digests,
    \* struct NetworkSync
    local_height,
    network_height,
    is_syncing,
    sync_progress,
    pending_requests,
    \* the holder of the write guard on is_syncing, or "free"
    is_syncing_lock,
    \* each caller's position in start_sync or stop_sync, the locals of the
    \* sync it runs and what its last call returned
    sync_task,
    \* the request ids drawn so far, the requests a response removed, and
    \* whether stop_sync returned since the last start_sync call
    sync_uuid,
    responded,
    stopped

ledger_vars == <<entries, account_balances, total_supply, uuid_next, clock, op, result,
                 tampered>>

engine_fields == <<state, current_view, current_sequence, is_primary, validators,
                   prepare_messages, commit_messages, committed_blocks>>

queue_vars == <<pending_transactions, pending_lock, pc, submitted, broadcast_log>>

engine_vars == <<engine_fields, queue_vars, round_log, handled>>

system_vars == <<admins, accounts, transactions, total_money_supply,
                 monetary_policy_decisions, call>>

digest_vars == <<batches, digests>>

sync_vars == <<local_height, network_height, is_syncing, sync_progress,
               pending_requests, is_syncing_lock, sync_task, sync_uuid, responded,
               stopped>>

\* What a Ledger method cannot reach, and what a ConsensusEngine method cannot.
outside_ledger == <<engine_vars, system_vars, digest_vars, sync_vars>>

outside_engine == <<ledger_vars, system_vars, digest_vars, sync_vars>>

\* What an AstorSystem method cannot reach, what calculate_digest cannot, and
\* what a NetworkSync method cannot.
outside_system == <<ledger_vars, engine_vars, digest_vars, sync_vars>>

outside_digest == <<ledger_vars, engine_vars, system_vars, sync_vars>>

outside_sync == <<ledger_vars, engine_vars, system_vars, digest_vars>>

vars == <<ledger_vars, engine_vars, system_vars, digest_vars, sync_vars>>

(***************************************************************************)
(* LedgerEntryType: the four variants, in one record shape.                *)
(***************************************************************************)
Issuance(transaction_id, issuer, recipient, amount) ==
    [kind |-> "Issuance", transaction_id |-> transaction_id,
     party |-> issuer, counterparty |-> recipient, amount |-> amount]

Transfer(transaction_id, from, to, amount) ==
    [kind |-> "Transfer", transaction_id |-> transaction_id,
     party |-> from, counterparty |-> to, amount |-> amount]

AccountCreation(account_id) ==
    [kind |-> "AccountCreation", transaction_id |-> "",
     party |-> account_id, counterparty |-> "", amount |-> 0]

AdminAction(admin_id, action, target) ==
    [kind |-> "AdminAction", transaction_id |-> action,
     party |-> admin_id, counterparty |-> target, amount |-> 0]

(***************************************************************************)
(* hash_data over the formatted entry: SHA-256 is taken to be injective,   *)
(* so a digest is the tuple of what was hashed.                            *)
(***************************************************************************)
genesis == <<"genesis">>

hash_data(previous_hash, entry_id, entry_type, timestamp) ==
    <<"sha256", previous_hash, entry_id, entry_type, timestamp>>

\* get_last_hash that forgets the chain's tail.
get_last_hash_Mutant(es) == genesis

get_last_hash(es) ==
    IF Len(es) = 0 THEN genesis ELSE es[Len(es)].hash

\* add_entry that leaves previous_hash out of what it hashes.
add_entry_Mutant(es, entry_type, entry_id, timestamp) ==
    LET previous_hash == get_last_hash(es)
        hash == hash_data(genesis, entry_id, entry_type, timestamp)
    IN  Append(es, [id |-> entry_id, entry_type |-> entry_type,
                    timestamp |-> timestamp, hash |-> hash,
                    previous_hash |-> previous_hash])

\* add_entry that puts the new entry at the head of the list.
add_entry_Insert_Mutant(es, entry_type, entry_id, timestamp) ==
    LET previous_hash == get_last_hash(es)
        hash == hash_data(previous_hash, entry_id, entry_type, timestamp)
    IN  <<[id |-> entry_id, entry_type |-> entry_type,
           timestamp |-> timestamp, hash |-> hash,
           previous_hash |-> previous_hash]>> \o es

\* The entries list after add_entry pushed one entry.
add_entry(es, entry_type, entry_id, timestamp) ==
    LET previous_hash == get_last_hash(es)
        hash == hash_data(previous_hash, entry_id, entry_type, timestamp)
    IN  Append(es, [id |-> entry_id, entry_type |-> entry_type,
                    timestamp |-> timestamp, hash |-> hash,
                    previous_hash |-> previous_hash])

\* HashMap::entry(k).or_insert(0)
or_insert(balances, k) ==
    IF k \in DOMAIN balances THEN balances
    ELSE [x \in DOMAIN balances \cup {k} |-> IF x = k THEN 0 ELSE balances[x]]

get_account_balance(balances, account_id) ==
    IF account_id \in DOMAIN balances THEN balances[account_id] ELSE 0

get_total_supply == total_supply

\* The entry that fails verify_integrity first, 0 when none does.
RECURSIVE first_mismatch(_, _)
first_mismatch(es, i) ==
    IF i > Len(es) THEN 0
    ELSE LET entry == es[i]
             expected_previous_hash == IF i = 1 THEN genesis ELSE es[i - 1].hash
             expected_hash == hash_data(entry.previous_hash, entry.id,
                                        entry.entry_type, entry.timestamp)
         IN  IF entry.previous_hash # expected_previous_hash THEN i
             ELSE IF entry.hash # expected_hash THEN i
             ELSE first_mismatch(es, i + 1)

\* verify_integrity that checks the links and never recomputes a hash.
verify_integrity_Mutant(es) ==
    \A i \in 1..Len(es) :
        es[i].previous_hash = IF i = 1 THEN genesis ELSE es[i - 1].hash

verify_integrity(es) ==
    IF Len(es) = 0 THEN TRUE ELSE first_mismatch(es, 1) = 0

(***************************************************************************)
(* Ledger::new                                                             *)
(***************************************************************************)
LedgerInit ==
    /\ entries = <<>>
    /\ account_balances = <<>>
    /\ total_supply = 0
    /\ uuid_next = 1
    /\ clock = 0
    /\ op = "new"
    /\ result = "none"
    /\ tampered = FALSE

\* Uuid::new_v4 and Utc::now as read by one add_entry call.
ReadEnvironment(timestamp) ==
    /\ Len(entries) < MaxEntries
    /\ timestamp \in {clock, clock + 1}
    /\ timestamp <= MaxClock
    /\ clock' = timestamp
    /\ uuid_next' = uuid_next + 1
    /\ UNCHANGED tampered
    /\ UNCHANGED outside_ledger

\* record_issuance that credits the recipient and leaves total_supply alone.
record_issuance_Mutant(transaction_id, issuer, recipient, amount, timestamp) ==
    /\ ReadEnvironment(timestamp)
    /\ op' = "record_issuance"
    /\ entries' = add_entry(entries, Issuance(transaction_id, issuer, recipient, amount),
                            uuid_next, timestamp)
    /\ UNCHANGED total_supply
    /\ LET balances == or_insert(account_balances, recipient)
       IN  IF balances[recipient] + amount > U64_MAX
           THEN /\ result' = "Account balance overflow"
                /\ account_balances' = balances
           ELSE /\ result' = "Ok"
                /\ account_balances' = [balances EXCEPT ![recipient] = @ + amount]

record_issuance(transaction_id, issuer, recipient, amount, timestamp) ==
    /\ ReadEnvironment(timestamp)
    /\ op' = "record_issuance"
    /\ entries' = add_entry(entries, Issuance(transaction_id, issuer, recipient, amount),
                            uuid_next, timestamp)
    /\ IF total_supply + amount > U64_MAX
       THEN /\ result' = "Total supply overflow"
            /\ UNCHANGED <<total_supply, account_balances>>
       ELSE /\ total_supply' = total_supply + amount
            /\ LET balances == or_insert(account_balances, recipient)
               IN  IF balances[recipient] + amount > U64_MAX
                   THEN /\ result' = "Account balance overflow"
                        /\ account_balances' = balances
                   ELSE /\ result' = "Ok"
                        /\ account_balances' =
                               [balances EXCEPT ![recipient] = @ + amount]

\* record_transfer that debits the sender and credits nobody.
record_transfer_Mutant(transaction_id, from, to, amount, timestamp) ==
    /\ ReadEnvironment(timestamp)
    /\ op' = "record_transfer"
    /\ entries' = add_entry(entries, Transfer(transaction_id, from, to, amount),
                            uuid_next, timestamp)
    /\ UNCHANGED total_supply
    /\ LET from_inserted == or_insert(account_balances, from)
       IN  IF from_inserted[from] < amount
           THEN /\ result' = "Insufficient balance in ledger"
                /\ account_balances' = from_inserted
           ELSE /\ result' = "Ok"
                /\ account_balances' =
                       or_insert([from_inserted EXCEPT ![from] = @ - amount], to)

record_transfer(transaction_id, from, to, amount, timestamp) ==
    /\ ReadEnvironment(timestamp)
    /\ op' = "record_transfer"
    /\ entries' = add_entry(entries, Transfer(transaction_id, from, to, amount),
                            uuid_next, timestamp)
    /\ UNCHANGED total_supply
    /\ LET from_inserted == or_insert(account_balances, from)
       IN  IF from_inserted[from] < amount
           THEN /\ result' = "Insufficient balance in ledger"
                /\ account_balances' = from_inserted
           ELSE LET debited == [from_inserted EXCEPT ![from] = @ - amount]
                    to_inserted == or_insert(debited, to)
                IN  IF to_inserted[to] + amount > U64_MAX
                    THEN /\ result' = "Account balance overflow"
                         /\ account_balances' = to_inserted
                    ELSE /\ result' = "Ok"
                         /\ account_balances' =
                                [to_inserted EXCEPT ![to] = @ + amount]

record_account_creation(account_id, timestamp) ==
    /\ ReadEnvironment(timestamp)
    /\ op' = "record_account_creation"
    /\ entries' = add_entry(entries, AccountCreation(account_id), uuid_next, timestamp)
    /\ result' = "Ok"
    /\ UNCHANGED <<total_supply, account_balances>>

record_admin_action(admin_id, action, target, timestamp) ==
    /\ ReadEnvironment(timestamp)
    /\ op' = "record_admin_action"
    /\ entries' = add_entry(entries, AdminAction(admin_id, action, target),
                            uuid_next, timestamp)
    /\ result' = "Ok"
    /\ UNCHANGED <<total_supply, account_balances>>

Timestamps == 0..MaxClock

LedgerNext ==
    \/ \E t \in TransactionIds, i \in AdminIds, r \in AccountIds, a \in Amounts,
          ts \in Timestamps : record_issuance(t, i, r, a, ts)
    \/ \E t \in TransactionIds, f \in AccountIds, r \in AccountIds, a \in Amounts,
          ts \in Timestamps : record_transfer(t, f, r, a, ts)
    \/ \E c \in AccountIds, ts \in Timestamps : record_account_creation(c, ts)
    \/ \E i \in AdminIds, c \in AccountIds, ts \in Timestamps :
          record_admin_action(i, "freeze", c, ts)

(***************************************************************************)
(* An entry's stored hash or previous_hash overwritten in place, once, by  *)
(* someone holding the storage rather than the API.                        *)
(***************************************************************************)
ForgedValues ==
    {genesis, <<"forged">>} \cup {entries[j].hash : j \in 1..Len(entries)}

Tamper ==
    /\ ~tampered
    /\ \E i \in 1..Len(entries), v \in ForgedValues :
          \/ /\ v # entries[i].hash
             /\ entries' = [entries EXCEPT ![i].hash = v]
          \/ /\ v # entries[i].previous_hash
             /\ entries' = [entries EXCEPT ![i].previous_hash = v]
    /\ tampered' = TRUE
    /\ UNCHANGED <<account_balances, total_supply, uuid_next, clock, op, result>>
    /\ UNCHANGED outside_ledger

(***************************************************************************)
(* The ledger's read operations, called through &self.                     *)
(***************************************************************************)
ReadOps == {"verify_integrity", "get_entries", "get_total_supply", "get_account_balance"}

\* A call that takes &self: it returns a value and writes no field.
Read(name, value) ==
    /\ op' = name
    /\ result' = value
    /\ UNCHANGED <<entries, account_balances, total_supply, uuid_next, clock, tampered>>
    /\ UNCHANGED outside_ledger

verify_integrity_call == Read("verify_integrity", <<"Ok", verify_integrity(entries)>>)

get_entries_call == Read("get_entries", <<entries>>)

get_total_supply_call == Read("get_total_supply", <<get_total_supply>>)

\* get_account_balance that looks the account up with entry().or_insert(0).
get_account_balance_call_Mutant(account_id) ==
    /\ op' = "get_account_balance"
    /\ result' = <<get_account_balance(account_balances, account_id)>>
    /\ account_balances' = or_insert(account_balances, account_id)
    /\ UNCHANGED <<entries, total_supply, uuid_next, clock, tampered>>
    /\ UNCHANGED outside_ledger

get_account_balance_call(account_id) ==
    Read("get_account_balance", <<get_account_balance(account_balances, account_id)>>)

ReadNext ==
    \/ verify_integrity_call
    \/ get_entries_call
    \/ get_total_supply_call
    \/ \E a \in AccountIds : get_account_balance_call(a)

(***************************************************************************)
(* The consensus engine (src/network/consensus.rs).  Every validator runs  *)
(* one ConsensusEngine; engines share no memory.                           *)
(***************************************************************************)
\* Validator ids, in their lexicographic order.  N = 3f + 1 with f = 1.
NodeIds == 1..4
\* The node a single-engine specification drives.
LocalNodes == {1}
\* Tasks that call add_transaction on one engine at the same time.
Callers == {"c1", "c2"}
Transactions == {"t1", "t2"}

\* `pending.len() >= 10` in add_transaction
BatchThreshold == 10

F == (Cardinality(NodeIds) - 1) \div 3
quorum_size == 2 * F + 1

\* format!("digest_{}", transactions.len())
calculate_digest(batch) == <<"digest", Len(batch)>>

Digests == {calculate_digest(<<"t1">>), calculate_digest(<<"t1", "t2">>)}
Batches == {<<"t1">>, <<"t2">>, <<"t1", "t2">>}

\* enum ConsensusMessage, the four variants in one record shape (the
\* signature is the placeholder of sign_message and is left out).
PrePrepare(view, sequence, digest, batch) ==
    [type |-> "PrePrepare", view |-> view, sequence |-> sequence,
     digest |-> digest, transactions |-> batch, node_id |-> 0]

Prepare(view, sequence, digest, node_id) ==
    [type |-> "Prepare", view |-> view, sequence |-> sequence,
     digest |-> digest, transactions |-> <<>>, node_id |-> node_id]

Commit(view, sequence, digest, node_id) ==
    [type |-> "Commit", view |-> view, sequence |-> sequence,
     digest |-> digest, transactions |-> <<>>, node_id |-> node_id]

ViewChange(new_view, node_id) ==
    [type |-> "ViewChange", view |-> new_view, sequence |-> 0,
     digest |-> <<"digest", 0>>, transactions |-> <<>>, node_id |-> node_id]

NoMessage ==
    [type |-> "None", view |-> 0, sequence |-> 0,
     digest |-> <<"digest", 0>>, transactions |-> <<>>, node_id |-> 0]

\* The messages the network may hand to a node.
Messages ==
    {PrePrepare(0, 0, d, b) : d \in Digests, b \in Batches}
    \cup {Prepare(0, 0, d, i) : d \in Digests, i \in NodeIds}
    \cup {Commit(0, 0, d, i) : d \in Digests, i \in NodeIds}
    \cup {ViewChange(v, i) : v \in {1, 2}, i \in NodeIds}

\* The validator ids in ascending order (validator_list.sort()).
RECURSIVE sorted(_)
sorted(ids) ==
    IF ids = {} THEN <<>>
    ELSE LET least == CHOOSE x \in ids : \A y \in ids : x <= y
         IN  <<least>> \o sorted(ids \ {least})

\* validator_list.get(current_view % validator_list.len())
primary_of(ids, view) == sorted(ids)[(view % Cardinality(ids)) + 1]

\* What a node was handed of one round, kept in the order the protocol gives
\* the messages: the first PrePrepare of the node's view, the senders of the
\* Prepares that match it, the senders of the Commits that match it once a
\* quorum of Prepares is in, and the senders of the ViewChanges to view + 1.
EmptyRound ==
    [view |-> 0, pre_prepare |-> NoMessage, prepares |-> {}, commits |-> {},
     view_changes |-> {}]

Matches(log, m) ==
    /\ log.pre_prepare.type = "PrePrepare"
    /\ m.node_id \in NodeIds
    /\ m.view = log.pre_prepare.view
    /\ m.sequence = log.pre_prepare.sequence
    /\ m.digest = log.pre_prepare.digest

Observe(log, m) ==
    CASE m.type = "PrePrepare" ->
            IF log.pre_prepare.type = "None" /\ m.view = log.view
            THEN [log EXCEPT !.pre_prepare = m] ELSE log
      [] m.type = "Prepare" ->
            IF Matches(log, m)
            THEN [log EXCEPT !.prepares = @ \cup {m.node_id}] ELSE log
      [] m.type = "Commit" ->
            IF Matches(log, m) /\ Cardinality(log.prepares) >= quorum_size
            THEN [log EXCEPT !.commits = @ \cup {m.node_id}] ELSE log
      [] m.type = "ViewChange" ->
            IF m.view = log.view + 1
            THEN [log EXCEPT !.view_changes = @ \cup {m.node_id}] ELSE log

Handled(log) ==
    (IF log.pre_prepare.type = "None" THEN 0 ELSE 1) + Cardinality(log.prepares)
    + Cardinality(log.commits) + Cardinality(log.view_changes)

\* A message the protocol has a node discard: a vote of a sender outside the
\* validators, a message of another view, or one that conflicts with the
\* PrePrepare the node accepted.
Invalid(log, m) ==
    \/ m.type # "PrePrepare" /\ m.node_id \notin NodeIds
    \/ m.type = "ViewChange" /\ m.view # log.view + 1
    \/ m.type # "ViewChange" /\ m.view # log.view
    \/ m.type = "PrePrepare" /\ log.pre_prepare.type = "PrePrepare"
                             /\ m # log.pre_prepare
    \/ m.type \in {"Prepare", "Commit"} /\ log.pre_prepare.type = "PrePrepare"
                                        /\ ~Matches(log, m)

RECURSIVE NetHandled(_)
NetHandled(ids) ==
    IF ids = {} THEN 0
    ELSE LET n == CHOOSE x \in ids : TRUE
         IN  Handled(round_log[n]) + NetHandled(ids \ {n})

\* ConsensusEngine::new, on every node
EngineInit ==
    /\ state = [n \in NodeIds |-> "Idle"]
    /\ current_view = [n \in NodeIds |-> 0]
    /\ current_sequence = [n \in NodeIds |-> 0]
    /\ is_primary = [n \in NodeIds |-> FALSE]
    /\ validators = [n \in NodeIds |-> {}]
    /\ pending_transactions = [n \in NodeIds |-> <<>>]
    /\ prepare_messages = [n \in NodeIds |-> {}]
    /\ commit_messages = [n \in NodeIds |-> {}]
    /\ committed_blocks = [n \in NodeIds |-> <<>>]
    /\ pending_lock = [n \in NodeIds |-> "free"]
    /\ pc = [n \in NodeIds |-> [c \in Callers |-> "idle"]]
    /\ submitted = [n \in NodeIds |-> [c \in Callers |-> "t1"]]
    /\ broadcast_log = [n \in NodeIds |-> <<>>]
    /\ round_log = [n \in NodeIds |-> EmptyRound]
    /\ handled = [invalid |-> FALSE, then_valid |-> FALSE, result |-> "none"]

\* start and stop take &mut self: no other call on the engine is in flight.
Exclusive(n) == \A c \in Callers : pc[n][c] = "idle"

initialize_validators(n) == validators[n] \cup {n}

\* update_primary_status that always takes the head of the sorted list.
update_primary_status_Mutant(n, ids) ==
    IF ids = {} THEN is_primary[n] ELSE sorted(ids)[1] = n

update_primary_status(n, ids) ==
    IF ids = {} THEN is_primary[n] ELSE primary_of(ids, current_view[n]) = n

start(n) ==
    /\ Exclusive(n)
    /\ validators' = [validators EXCEPT ![n] = initialize_validators(n)]
    /\ is_primary' = [is_primary EXCEPT ![n] = update_primary_status(n, validators'[n])]
    /\ UNCHANGED <<state, current_view, current_sequence, prepare_messages,
                   commit_messages, committed_blocks, queue_vars, round_log,
                   handled>>
    /\ UNCHANGED outside_engine

stop(n) ==
    /\ Exclusive(n)
    /\ state' = [state EXCEPT ![n] = "Idle"]
    /\ UNCHANGED <<current_view, current_sequence, is_primary, validators,
                   prepare_messages, commit_messages, committed_blocks, queue_vars,
                   round_log, handled>>
    /\ UNCHANGED outside_engine

get_block_height(n) == Len(committed_blocks[n])

(***************************************************************************)
(* add_transaction, in the steps other tasks can interleave with.          *)
(***************************************************************************)
\* A task enters add_transaction and asks for the queue's write lock.
add_transaction_call(n, c, transaction) ==
    /\ pc[n][c] = "idle"
    /\ Len(pending_transactions[n]) < MaxPending
    /\ pc' = [pc EXCEPT ![n][c] = "pending_write"]
    /\ submitted' = [submitted EXCEPT ![n][c] = transaction]
    /\ UNCHANGED <<pending_transactions, pending_lock, broadcast_log>>
    /\ UNCHANGED <<engine_fields, round_log, handled, outside_engine>>

\* pending_transactions.write().await is granted: in add_transaction the task
\* pushes its transaction; in initiate_consensus_round it drains the queue,
\* broadcasts the PrePrepare and returns through add_transaction.
pending_write_granted(n, c) ==
    /\ pc[n][c] \in {"pending_write", "round_pending_write"}
    /\ pending_lock[n] = "free"
    /\ IF pc[n][c] = "pending_write"
       THEN /\ pending_lock' = [pending_lock EXCEPT ![n] = c]
            /\ pending_transactions' =
                   [pending_transactions EXCEPT ![n] = Append(@, submitted[n][c])]
            /\ pc' = [pc EXCEPT ![n][c] = "pushed"]
            /\ UNCHANGED broadcast_log
       ELSE /\ pending_lock' = pending_lock
            /\ pending_transactions' = [pending_transactions EXCEPT ![n] = <<>>]
            /\ broadcast_log' =
                   [broadcast_log EXCEPT ![n] =
                       IF pending_transactions[n] = <<>> THEN @
                       ELSE Append(@, PrePrepare(current_view[n], current_sequence[n],
                                                 calculate_digest(pending_transactions[n]),
                                                 pending_transactions[n]))]
            /\ pc' = [pc EXCEPT ![n][c] = "idle"]
    /\ UNCHANGED submitted
    /\ UNCHANGED <<engine_fields, round_log, handled, outside_engine>>

\* add_transaction_check that advances current_sequence when it returns Ok.
add_transaction_check_Mutant(n, c) ==
    /\ pc[n][c] = "pushed"
    /\ pc' = [pc EXCEPT ![n][c] = "idle"]
    /\ pending_lock' = [pending_lock EXCEPT ![n] = "free"]
    /\ current_sequence' = [current_sequence EXCEPT ![n] = 1]
    /\ UNCHANGED <<state, current_view, is_primary, validators, prepare_messages,
                   commit_messages, committed_blocks>>
    /\ UNCHANGED <<pending_transactions, submitted, broadcast_log>>
    /\ UNCHANGED <<round_log, handled, outside_engine>>

\* `if self.is_primary && pending.len() >= 10`, with the write guard held:
\* either call initiate_consensus_round, or drop the guard and return Ok.
add_transaction_check(n, c) ==
    /\ pc[n][c] = "pushed"
    /\ IF is_primary[n] /\ Len(pending_transactions[n]) >= BatchThreshold
       THEN /\ pc' = [pc EXCEPT ![n][c] = "round_pending_write"]
            /\ UNCHANGED pending_lock
       ELSE /\ pc' = [pc EXCEPT ![n][c] = "idle"]
            /\ pending_lock' = [pending_lock EXCEPT ![n] = "free"]
    /\ UNCHANGED <<pending_transactions, submitted, broadcast_log>>
    /\ UNCHANGED <<engine_fields, round_log, handled, outside_engine>>

\* initiate_consensus_round that proposes pending.drain(1..) and clears the queue.
initiate_consensus_round_Drain_Mutant(n) ==
    /\ pending_lock[n] = "free"
    /\ Len(broadcast_log[n]) < MaxBroadcasts
    /\ IF is_primary[n] /\ pending_transactions[n] # <<>>
       THEN /\ pending_transactions' = [pending_transactions EXCEPT ![n] = <<>>]
            /\ broadcast_log' =
                   [broadcast_log EXCEPT ![n] =
                       Append(@, PrePrepare(current_view[n], current_sequence[n],
                                            calculate_digest(Tail(pending_transactions[n])),
                                            Tail(pending_transactions[n])))]
       ELSE UNCHANGED <<pending_transactions, broadcast_log>>
    /\ UNCHANGED <<pending_lock, pc, submitted>>
    /\ UNCHANGED <<engine_fields, round_log, handled, outside_engine>>

\* initiate_consensus_round without the `if !self.is_primary` return.
initiate_consensus_round_Mutant(n) ==
    /\ pending_lock[n] = "free"
    /\ Len(broadcast_log[n]) < MaxBroadcasts
    /\ IF pending_transactions[n] # <<>>
       THEN /\ pending_transactions' = [pending_transactions EXCEPT ![n] = <<>>]
            /\ broadcast_log' =
                   [broadcast_log EXCEPT ![n] =
                       Append(@, PrePrepare(current_view[n], current_sequence[n],
                                            calculate_digest(pending_transactions[n]),
                                            pending_transactions[n]))]
       ELSE UNCHANGED <<pending_transactions, broadcast_log>>
    /\ UNCHANGED <<pending_lock, pc, submitted>>
    /\ UNCHANGED <<engine_fields, round_log, handled, outside_engine>>

\* initiate_consensus_round run by a task that holds no guard on the queue,
\* from `if !self.is_primary` to the broadcast of the PrePrepare.
initiate_consensus_round(n) ==
    /\ pending_lock[n] = "free"
    /\ Len(broadcast_log[n]) < MaxBroadcasts
    /\ IF is_primary[n] /\ pending_transactions[n] # <<>>
       THEN /\ pending_transactions' = [pending_transactions EXCEPT ![n] = <<>>]
            /\ broadcast_log' =
                   [broadcast_log EXCEPT ![n] =
                       Append(@, PrePrepare(current_view[n], current_sequence[n],
                                            calculate_digest(pending_transactions[n]),
                                            pending_transactions[n]))]
       ELSE UNCHANGED <<pending_transactions, broadcast_log>>
    /\ UNCHANGED <<pending_lock, pc, submitted>>
    /\ UNCHANGED <<engine_fields, round_log, handled, outside_engine>>

(***************************************************************************)
(* handle_consensus_message and the four handlers it dispatches to.        *)
(***************************************************************************)
handle_pre_prepare(n, message) == UNCHANGED engine_fields

\* handle_prepare that stores every Prepare it is handed.
handle_prepare_Mutant(n, message) ==
    /\ prepare_messages' = [prepare_messages EXCEPT ![n] = @ \cup {message}]
    /\ UNCHANGED <<state, current_view, current_sequence, is_primary, validators,
                   commit_messages, committed_blocks>>

handle_prepare(n, message) == UNCHANGED engine_fields

\* handle_commit that finalizes a block on the first Commit it is handed.
handle_commit_Mutant(n, message) ==
    /\ committed_blocks' =
           [committed_blocks EXCEPT ![n] =
               Append(@, [sequence |-> message.sequence, view |-> message.view,
                          transactions |-> <<>>, previous_hash |-> genesis,
                          merkle_root |-> message.digest])]
    /\ UNCHANGED <<state, current_view, current_sequence, is_primary, validators,
                   prepare_messages, commit_messages>>

handle_commit(n, message) == UNCHANGED engine_fields

handle_view_change(n, message) == UNCHANGED engine_fields

handle_consensus_message(n, message) ==
    /\ CASE message.type = "PrePrepare" -> handle_pre_prepare(n, message)
         [] message.type = "Prepare" -> handle_prepare(n, message)
         [] message.type = "Commit" -> handle_commit(n, message)
         [] message.type = "ViewChange" -> handle_view_change(n, message)
    /\ round_log' = [round_log EXCEPT ![n] = Observe(@, message)]
    /\ handled' = IF Invalid(round_log[n], message)
                  THEN [invalid |-> TRUE, then_valid |-> FALSE, result |-> "Ok"]
                  ELSE [invalid |-> handled.invalid, then_valid |-> handled.invalid,
                        result |-> "Ok"]
    /\ UNCHANGED <<queue_vars, outside_engine>>

(***************************************************************************)
(* AstorSystem: the managers it owns and the calls made on them.           *)
(***************************************************************************)
Principals == {"root", "mallory"}
Keys == {"root_key", "mallory_key"}
SignedMessages == {"issue_currency", "other"}

\* struct Signature: the key that signed, the bytes signed, and whether its
\* timestamp is within the five minutes verify allows.
Signatures == [key : Keys, message : SignedMessages, fresh : BOOLEAN]

NoSignature == [key |-> "", message |-> "", fresh |-> FALSE]

\* Uuid::new_v4().to_string(): the k-th identifier drawn for one collection.
Uuid(collection, k) == <<"uuid", collection, k>>

Call(name, admin_id, account_id, amount, signature, ok, value) ==
    [op |-> name, admin_id |-> admin_id, account_id |-> account_id,
     amount |-> amount, signature |-> signature, ok |-> ok, value |-> value]

insert(map, k, v) ==
    [x \in DOMAIN map \cup {k} |-> IF x = k THEN v ELSE map[x]]

\* Signature::verify
verify(signature, public_key, message) ==
    /\ signature.fresh
    /\ signature.key = public_key
    /\ signature.message = message

\* AdminManager::verify_admin_action: <<"Ok">> or the error it returns.
verify_admin_action(admin_id, action, signature) ==
    IF admin_id \notin DOMAIN admins THEN <<"AdminNotFound", admin_id>>
    ELSE IF ~admins[admin_id].is_active
         THEN <<"Unauthorized", "Administrator is inactive">>
    ELSE IF ~verify(signature, admins[admin_id].public_key, action)
         THEN <<"InvalidSignature">>
    ELSE <<"Ok">>

\* AccountManager::get_balance
get_balance(account_id) ==
    IF account_id \in DOMAIN accounts THEN accounts[account_id].balance
    ELSE <<"AccountNotFound", account_id>>

\* TransactionManager::get_transaction: the transactions stored under tx_id.
get_transaction(txs, tx_id) ==
    {i \in 1..Len(txs) : txs[i].id = tx_id}

\* AstorSystem::new: the root administrator registered, everything else empty.
SystemInit ==
    /\ admins = insert(<<>>, "root", [public_key |-> "root_key", is_active |-> TRUE])
    /\ accounts = <<>>
    /\ transactions = <<>>
    /\ total_money_supply = 0
    /\ monetary_policy_decisions = <<>>
    /\ call = Call("new", "", "", 0, NoSignature, TRUE, <<"Ok">>)

\* A call on the AccountManager alone.
AccountCall(next_call, next_accounts) ==
    /\ call' = next_call
    /\ accounts' = next_accounts
    /\ UNCHANGED <<admins, transactions, total_money_supply, monetary_policy_decisions>>
    /\ UNCHANGED outside_system

create_account(public_key) ==
    \E account_id \in AccountIds \ DOMAIN accounts :
        AccountCall(Call("create_account", "", account_id, 0, NoSignature, TRUE,
                         <<account_id>>),
                    insert(accounts, account_id,
                           [public_key |-> public_key, balance |-> 0,
                            last_transaction |-> "None", is_frozen |-> FALSE]))

credit_account(account_id, amount) ==
    LET Return(ok, value, next_accounts) ==
            AccountCall(Call("credit_account", "", account_id, amount, NoSignature,
                             ok, value), next_accounts)
    IN  IF account_id \notin DOMAIN accounts
        THEN Return(FALSE, <<"AccountNotFound", account_id>>, accounts)
        ELSE IF accounts[account_id].is_frozen
        THEN Return(FALSE, <<"Unauthorized", "Account is frozen">>, accounts)
        ELSE IF accounts[account_id].balance + amount > U64_MAX
        THEN Return(FALSE, <<"TransactionValidationFailed", "Balance overflow">>,
                    accounts)
        ELSE Return(TRUE, <<"Ok">>,
                    [accounts EXCEPT ![account_id].balance = @ + amount,
                                     ![account_id].last_transaction = "Some"])

\* debit_account that subtracts without testing the balance.
debit_account_Mutant(account_id, amount) ==
    LET Return(ok, value, next_accounts) ==
            AccountCall(Call("debit_account", "", account_id, amount, NoSignature,
                             ok, value), next_accounts)
    IN  IF account_id \notin DOMAIN accounts
        THEN Return(FALSE, <<"AccountNotFound", account_id>>, accounts)
        ELSE Return(TRUE, <<"Ok">>,
                    [accounts EXCEPT ![account_id].balance =
                                         (@ - amount) % (U64_MAX + 1),
                                     ![account_id].last_transaction = "Some"])

debit_account(account_id, amount) ==
    LET Return(ok, value, next_accounts) ==
            AccountCall(Call("debit_account", "", account_id, amount, NoSignature,
                             ok, value), next_accounts)
    IN  IF account_id \notin DOMAIN accounts
        THEN Return(FALSE, <<"AccountNotFound", account_id>>, accounts)
        ELSE IF accounts[account_id].is_frozen
        THEN Return(FALSE, <<"Unauthorized", "Account is frozen">>, accounts)
        ELSE IF accounts[account_id].balance < amount
        THEN Return(FALSE, <<"InsufficientFunds">>, accounts)
        ELSE Return(TRUE, <<"Ok">>,
                    [accounts EXCEPT ![account_id].balance = @ - amount,
                                     ![account_id].last_transaction = "Some"])

set_account_frozen(account_id, frozen) ==
    IF account_id \notin DOMAIN accounts
    THEN AccountCall(Call("set_account_frozen", "", account_id, 0, NoSignature,
                          FALSE, <<"AccountNotFound", account_id>>), accounts)
    ELSE AccountCall(Call("set_account_frozen", "", account_id, 0, NoSignature,
                          TRUE, <<"Ok">>),
                     [accounts EXCEPT ![account_id].is_frozen = frozen])

\* CentralBank::issue_currency: what it returns, and the two fields after it.
central_bank_issue_currency(amount, justification) ==
    LET decision ==
            [decision_id |-> Uuid("decision", Len(monetary_policy_decisions)),
             amount |-> amount, rationale |-> justification]
    IN  IF total_money_supply + amount > U64_MAX
        THEN [ok |-> FALSE, value |-> <<"CentralBankError", "Money supply overflow">>,
              total_money_supply |-> total_money_supply,
              monetary_policy_decisions |-> monetary_policy_decisions]
        ELSE [ok |-> TRUE, value |-> decision.decision_id,
              total_money_supply |-> total_money_supply + amount,
              monetary_policy_decisions |-> Append(monetary_policy_decisions, decision)]

\* AstorSystem::issue_currency: the metric it records first is kept by the
\* monitoring system alone; what it returns is the central bank's error or
\* the formatted message that ends with the decision id.
issue_currency(admin_id, recipient_account, amount, admin_signature) ==
    LET issued == central_bank_issue_currency(amount, <<admin_id, recipient_account>>)
    IN  /\ Len(monetary_policy_decisions) < MaxDecisions
        /\ total_money_supply' = issued.total_money_supply
        /\ monetary_policy_decisions' = issued.monetary_policy_decisions
        /\ call' = Call("issue_currency", admin_id, recipient_account, amount,
                        admin_signature, issued.ok,
                        IF issued.ok
                        THEN <<"Currency issued successfully. Decision ID: ">>
                                 \o issued.value
                        ELSE issued.value)
        /\ UNCHANGED <<admins, accounts, transactions>>
        /\ UNCHANGED outside_system

(***************************************************************************)
(* NetworkSync (network/sync.rs).  A call is a chain of steps, one per      *)
(* lock acquisition; a write guard bound to a name is held until the        *)
(* function that took it returns.                                           *)
(***************************************************************************)
SyncCallers == {"s1", "s2"}

\* let batch_size = 100
batch_size == 100

\* block heights are u64
HEIGHT_MAX == 2^HeightBits - 1

\* heights handed to update_local_height
LocalHeights == {0, batch_size}

NoRequests == <<>>

IdleTask == [pc |-> "idle", from_height |-> 0, to_height |-> 0, current_height |-> 0,
             end_height |-> 0, returned |-> "none"]

SyncRequest(request_id, from_height, to_height) ==
    [request_id |-> request_id, request_type |-> "Blocks", from_height |-> from_height,
     to_height |-> to_height, limit |-> 100]

SyncInit ==
    /\ local_height = 0
    /\ network_height = 0
    /\ is_syncing = FALSE
    /\ sync_progress = <<0, 1>>
    /\ pending_requests = NoRequests
    /\ is_syncing_lock = "free"
    /\ sync_task = [c \in SyncCallers |-> IdleTask]
    /\ sync_uuid = 0
    /\ responded = {}
    /\ stopped = FALSE

\* Placeholder: the height the peers are taken to report.
get_network_height == 100

Min(a, b) == IF a <= b THEN a ELSE b

Without(requests, request_id) ==
    [id \in (DOMAIN requests) \ {request_id} |-> requests[id]]

SyncReturn(c, outcome) ==
    sync_task' = [sync_task EXCEPT ![c].pc = "idle", ![c].returned = outcome]

start_sync_Mutant(c) ==
    /\ sync_task[c].pc = "idle"
    /\ sync_uuid < MaxSyncRequests
    /\ is_syncing_lock = "free"
    /\ stopped' = FALSE
    /\ sync_task' = [sync_task EXCEPT ![c].pc = "perform_initial_sync",
                                      ![c].returned = "none"]
    /\ UNCHANGED <<local_height, network_height, is_syncing, sync_progress,
                   pending_requests, is_syncing_lock, sync_uuid, responded>>
    /\ UNCHANGED outside_sync

\* is_syncing.write(): return if it is set, set it and drop the guard if not.
start_sync(c) ==
    /\ sync_task[c].pc = "idle"
    /\ sync_uuid < MaxSyncRequests
    /\ is_syncing_lock = "free"
    /\ stopped' = FALSE
    /\ IF is_syncing
       THEN /\ SyncReturn(c, "Already syncing")
            /\ UNCHANGED is_syncing
       ELSE /\ is_syncing' = TRUE
            /\ sync_task' = [sync_task EXCEPT ![c].pc = "perform_initial_sync",
                                              ![c].returned = "none"]
    /\ UNCHANGED <<local_height, network_height, sync_progress, pending_requests,
                   is_syncing_lock, sync_uuid, responded>>
    /\ UNCHANGED outside_sync

\* let network_height = self.get_network_height().await?;
\* let local_height = *self.local_height.read().await;
perform_initial_sync(c) ==
    /\ sync_task[c].pc = "perform_initial_sync"
    /\ sync_task' = [sync_task EXCEPT ![c].pc = "compare",
                                      ![c].from_height = local_height,
                                      ![c].to_height = get_network_height]
    /\ UNCHANGED <<local_height, network_height, is_syncing, sync_progress,
                   pending_requests, is_syncing_lock, sync_uuid, responded, stopped>>
    /\ UNCHANGED outside_sync

\* if network_height <= local_height: clear is_syncing and return; otherwise
\* store the network height and enter sync_blocks(local_height, network_height).
perform_initial_sync_compare(c) ==
    /\ sync_task[c].pc = "compare"
    /\ IF sync_task[c].to_height <= sync_task[c].from_height
       THEN /\ is_syncing_lock = "free"
            /\ is_syncing' = FALSE
            /\ SyncReturn(c, "up to date")
            /\ UNCHANGED network_height
       ELSE /\ network_height' = sync_task[c].to_height
            /\ sync_task' = [sync_task EXCEPT
                                ![c].pc = "sync_blocks",
                                ![c].current_height = sync_task[c].from_height]
            /\ UNCHANGED is_syncing
    /\ UNCHANGED <<local_height, sync_progress, pending_requests, is_syncing_lock,
                   sync_uuid, responded, stopped>>
    /\ UNCHANGED outside_sync

\* pending.insert(request.request_id.clone(), request)
send_sync_request(request) ==
    pending_requests' =
        [id \in (DOMAIN pending_requests) \cup {request.request_id} |->
            IF id = request.request_id THEN request ELSE pending_requests[id]]

\* One pass of the while loop up to send_sync_request.  current_height +
\* batch_size is a plain u64 addition: past u64::MAX it panics where overflow
\* checks are compiled in and wraps where they are not.
sync_blocks_send(c) ==
    LET t == sync_task[c]
        sum == t.current_height + batch_size
    IN  /\ t.pc = "sync_blocks"
        /\ t.current_height < t.to_height
        /\ sync_uuid < MaxRequests
        /\ \/ /\ sum > HEIGHT_MAX
              /\ sync_task' = [sync_task EXCEPT ![c].pc = "panicked"]
              /\ UNCHANGED <<pending_requests, sync_uuid>>
           \/ LET end_height == Min(sum % (HEIGHT_MAX + 1), t.to_height)
              IN  /\ sync_uuid' = sync_uuid + 1
                  /\ send_sync_request(SyncRequest(sync_uuid', t.current_height,
                                                   end_height))
                  /\ sync_task' = [sync_task EXCEPT ![c].pc = "progress",
                                                    ![c].end_height = end_height]
        /\ UNCHANGED <<local_height, network_height, is_syncing, sync_progress,
                       is_syncing_lock, responded, stopped>>
        /\ UNCHANGED outside_sync

\* The rest of the pass: the progress ratio, kept as numerator and
\* denominator, and current_height = end_height.
sync_blocks_progress(c) ==
    LET t == sync_task[c]
    IN  /\ t.pc = "progress"
        /\ sync_progress' = <<(t.current_height - t.from_height) % (HEIGHT_MAX + 1),
                              (t.to_height - t.from_height) % (HEIGHT_MAX + 1)>>
        /\ sync_task' = [sync_task EXCEPT ![c].pc = "sync_blocks",
                                          ![c].current_height = t.end_height]
        /\ UNCHANGED <<local_height, network_height, is_syncing, pending_requests,
                       is_syncing_lock, sync_uuid, responded, stopped>>
        /\ UNCHANGED outside_sync

\* After the loop: let mut is_syncing = self.is_syncing.write().await;
\* *is_syncing = false; the guard lives to the end of sync_blocks.
sync_blocks_complete(c) ==
    LET t == sync_task[c]
    IN  /\ t.pc = "sync_blocks"
        /\ ~(t.current_height < t.to_height)
        /\ is_syncing_lock = "free"
        /\ is_syncing_lock' = c
        /\ is_syncing' = FALSE
        /\ sync_task' = [sync_task EXCEPT ![c].pc = "complete"]
        /\ UNCHANGED <<local_height, network_height, sync_progress, pending_requests,
                       sync_uuid, responded, stopped>>
        /\ UNCHANGED outside_sync

\* *progress = 1.0, then sync_blocks, perform_initial_sync and start_sync
\* return Ok.
sync_blocks_return(c) ==
    /\ sync_task[c].pc = "complete"
    /\ sync_progress' = <<1, 1>>
    /\ is_syncing_lock' = "free"
    /\ SyncReturn(c, "completed")
    /\ UNCHANGED <<local_height, network_height, is_syncing, pending_requests,
                   sync_uuid, responded, stopped>>
    /\ UNCHANGED outside_sync

\* let mut is_syncing = self.is_syncing.write().await; *is_syncing = false;
stop_sync(c) ==
    /\ sync_task[c].pc = "idle"
    /\ is_syncing_lock = "free"
    /\ is_syncing_lock' = c
    /\ is_syncing' = FALSE
    /\ sync_task' = [sync_task EXCEPT ![c].pc = "stop_sync", ![c].returned = "none"]
    /\ UNCHANGED <<local_height, network_height, sync_progress, pending_requests,
                   sync_uuid, responded, stopped>>
    /\ UNCHANGED outside_sync

\* pending.clear(), then stop_sync returns Ok and both guards are dropped.
stop_sync_clear(c) ==
    /\ sync_task[c].pc = "stop_sync"
    /\ pending_requests' = NoRequests
    /\ is_syncing_lock' = "free"
    /\ SyncReturn(c, "stopped")
    /\ stopped' = TRUE
    /\ UNCHANGED <<local_height, network_height, is_syncing, sync_progress, sync_uuid,
                   responded>>
    /\ UNCHANGED outside_sync

\* pending.remove(&response.request_id); the process_* functions are empty.
handle_sync_response(request_id) ==
    /\ pending_requests' = Without(pending_requests, request_id)
    /\ responded' = IF request_id \in DOMAIN pending_requests
                    THEN responded \cup {pending_requests[request_id]}
                    ELSE responded
    /\ UNCHANGED <<local_height, network_height, is_syncing, sync_progress,
                   is_syncing_lock, sync_task, sync_uuid, stopped>>
    /\ UNCHANGED outside_sync

update_local_height(height) ==
    /\ local_height' = height
    /\ UNCHANGED <<network_height, is_syncing, sync_progress, pending_requests,
                   is_syncing_lock, sync_task, sync_uuid, responded, stopped>>
    /\ UNCHANGED outside_sync

(***************************************************************************)
(* calculate_digest applied to two batches.                                *)
(***************************************************************************)
RECURSIVE SeqsUpTo(_, _)
SeqsUpTo(S, n) ==
    IF n = 0 THEN {<<>>}
    ELSE LET shorter == SeqsUpTo(S, n - 1)
         IN  shorter \cup {Append(s, x) : s \in shorter, x \in S}

NoDigest == <<"none">>

DigestInit ==
    /\ LedgerInit
    /\ EngineInit
    /\ SystemInit
    /\ SyncInit
    /\ batches \in SeqsUpTo(Transactions, MaxBatch) \X SeqsUpTo(Transactions, MaxBatch)
    /\ digests = <<NoDigest, NoDigest>>

calculate_digest_call(i) ==
    /\ digests[i] = NoDigest
    /\ digests' = [digests EXCEPT ![i] = calculate_digest(batches[i])]
    /\ UNCHANGED batches
    /\ UNCHANGED outside_digest

Init ==
    /\ LedgerInit
    /\ EngineInit
    /\ SystemInit
    /\ SyncInit
    /\ batches = <<<<>>, <<>>>>
    /\ digests = <<NoDigest, NoDigest>>

Next == LedgerNext

\* The ledger driven through its public API.
Spec == Init /\ [][Next]_vars

TamperNext ==
    \/ Len(entries) < MaxTamperedEntries /\ LedgerNext
    \/ Tamper

\* The ledger driven through its public API, with one overwrite of a stored entry.
SpecTamper == Init /\ [][TamperNext]_vars

SubmitNext ==
    \E n \in LocalNodes :
        \/ start(n)
        \/ stop(n)
        \/ \E c \in Callers, t \in Transactions : add_transaction_call(n, c, t)
        \/ \E c \in Callers : pending_write_granted(n, c)
        \/ \E c \in Callers : add_transaction_check(n, c)

\* One engine and the tasks that submit transactions to it.
SpecSubmit == Init /\ [][SubmitNext]_vars

RoundNext ==
    \E n \in LocalNodes :
        \/ start(n)
        \/ stop(n)
        \/ \E m \in Messages : handle_consensus_message(n, m)

\* One engine and the consensus messages the network hands to it.
SpecRound == Init /\ [][RoundNext]_vars

NetNext ==
    \E n \in NodeIds :
        \/ start(n)
        \/ stop(n)
        \/ /\ NetHandled(NodeIds) < MaxNetHandled
           /\ \E m \in Messages : handle_consensus_message(n, m)

\* The validators' engines and the consensus messages handed to each.
SpecNet == Init /\ [][NetNext]_vars

\* The messages of one round: PrePrepare, Prepare and Commit.
RoundMessages == {m \in Messages : m.type # "ViewChange"}

SystemNext ==
    \/ Len(entries) < MaxSystemEntries /\ LedgerNext
    \/ \E n \in LocalNodes :
           \/ start(n)
           \/ stop(n)
           \/ \E m \in RoundMessages : handle_consensus_message(n, m)

\* The ledger's public API next to one engine that is handed consensus messages.
SpecSystem == Init /\ [][SystemNext]_vars

AccountsNext ==
    \/ create_account("None")
    \/ \E a \in AccountIds, x \in Amounts : credit_account(a, x)
    \/ \E a \in AccountIds, x \in Amounts : debit_account(a, x)
    \/ \E a \in AccountIds, frozen \in BOOLEAN : set_account_frozen(a, frozen)

\* The AccountManager driven through its public API.
SpecAccounts == Init /\ [][AccountsNext]_vars

AstorNext ==
    \/ create_account("None")
    \/ \E admin_id \in Principals, a \in AccountIds, x \in Amounts, s \in Signatures :
           issue_currency(admin_id, a, x, s)

\* An AstorSystem whose accounts are opened and to which currency is issued.
SpecAstor == Init /\ [][AstorNext]_vars

DigestNext == \E i \in 1..2 : calculate_digest_call(i)

\* calculate_digest called on each of two batches.
SpecDigest == DigestInit /\ [][DigestNext]_vars

ProposeNext ==
    \E n \in LocalNodes :
        \/ start(n)
        \/ stop(n)
        \/ /\ Len(pending_transactions[n]) < MaxQueued
           /\ \E c \in Callers, t \in Transactions : add_transaction_call(n, c, t)
        \/ \E c \in Callers : pending_write_granted(n, c)
        \/ \E c \in Callers : add_transaction_check(n, c)
        \/ initiate_consensus_round(n)

\* One engine, the tasks that submit transactions to it, and the rounds it
\* initiates from a queue shorter than the batch threshold.
SpecPropose == Init /\ [][ProposeNext]_vars

\* The engines whose validator set and view are given.
PrimaryNodes == {1, 2}

\* Engines as ConsensusEngine::new leaves them, but for the validators known
\* from config or discovery and the view the network is in.
PrimaryInit ==
    /\ LedgerInit
    /\ SystemInit
    /\ SyncInit
    /\ batches = <<<<>>, <<>>>>
    /\ digests = <<NoDigest, NoDigest>>
    /\ state = [n \in NodeIds |-> "Idle"]
    /\ current_view \in [NodeIds -> 0..MaxView]
    /\ \A n \in NodeIds \ PrimaryNodes : current_view[n] = 0
    /\ current_sequence = [n \in NodeIds |-> 0]
    /\ is_primary = [n \in NodeIds |-> FALSE]
    /\ validators \in [NodeIds -> SUBSET NodeIds]
    /\ \A n \in NodeIds \ PrimaryNodes : validators[n] = {}
    /\ pending_transactions = [n \in NodeIds |-> <<>>]
    /\ prepare_messages = [n \in NodeIds |-> {}]
    /\ commit_messages = [n \in NodeIds |-> {}]
    /\ committed_blocks = [n \in NodeIds |-> <<>>]
    /\ pending_lock = [n \in NodeIds |-> "free"]
    /\ pc = [n \in NodeIds |-> [c \in Callers |-> "idle"]]
    /\ submitted = [n \in NodeIds |-> [c \in Callers |-> "t1"]]
    /\ broadcast_log = [n \in NodeIds |-> <<>>]
    /\ round_log = [n \in NodeIds |-> EmptyRound]
    /\ handled = [invalid |-> FALSE, then_valid |-> FALSE, result |-> "none"]

PrimaryNext == \E n \in PrimaryNodes : start(n) \/ stop(n)

\* Engines started in a given view with a given validator set.
SpecPrimary == PrimaryInit /\ [][PrimaryNext]_vars

\* Messages of a faulty peer: votes of a sender that is no validator, votes
\* and a proposal of another view, a ViewChange that skips a view.
FaultyMessages ==
    {Prepare(0, 0, d, 5) : d \in Digests}
    \cup {Commit(0, 0, d, 5) : d \in Digests}
    \cup {Prepare(1, 0, d, i) : d \in Digests, i \in NodeIds}
    \cup {PrePrepare(1, 0, d, <<"t1">>) : d \in Digests}
    \cup {ViewChange(3, i) : i \in NodeIds}

FaultyNext ==
    \E n \in LocalNodes :
        \/ start(n)
        \/ stop(n)
        \/ \E m \in RoundMessages \cup FaultyMessages : handle_consensus_message(n, m)

\* One engine that is handed the messages of a round and those of a faulty peer.
SpecFaulty == Init /\ [][FaultyNext]_vars

ReadWriteNext ==
    \/ Len(entries) < MaxReadEntries /\ LedgerNext
    \/ Tamper
    \/ ReadNext

\* The ledger written, overwritten once and read through its public API.
SpecRead == Init /\ [][ReadWriteNext]_vars

GuardNext ==
    \E n \in LocalNodes :
        \/ start(n)
        \/ stop(n)
        \/ \E c \in Callers : add_transaction_call(n, c, "t1")
        \/ \E c \in Callers : pending_write_granted(n, c)
        \/ \E c \in Callers : add_transaction_check(n, c)
        \/ initiate_consensus_round(n)

\* One engine, the tasks that submit one transaction over and over until the
\* batch threshold is met, and the rounds the engine initiates.
SpecGuard == Init /\ [][GuardNext]_vars

SyncRunNext ==
    \/ \E c \in SyncCallers :
        \/ perform_initial_sync(c)
        \/ perform_initial_sync_compare(c)
        \/ sync_blocks_send(c)
        \/ sync_blocks_progress(c)
        \/ sync_blocks_complete(c)
        \/ sync_blocks_return(c)
    \/ \E request_id \in 1..(MaxRequests + 1) : handle_sync_response(request_id)
    \/ \E height \in LocalHeights : update_local_height(height)

StartSyncNext ==
    \/ \E c \in SyncCallers : start_sync(c)
    \/ SyncRunNext

\* One NetworkSync shared by tasks that call start_sync, while responses
\* arrive and the local height moves.
SpecStartSync == Init /\ [][StartSyncNext]_vars

SyncNext ==
    \/ \E c \in SyncCallers :
        \/ start_sync(c)
        \/ stop_sync(c)
        \/ stop_sync_clear(c)
    \/ SyncRunNext

\* The same, with tasks that call stop_sync as well.
SpecSync == Init /\ [][SyncNext]_vars

\* Heights sync_blocks is entered with: from_height < to_height, up to
\* MaxBatches batches apart, and up to u64::MAX.
FromHeights == {0, 1, batch_size, HEIGHT_MAX - batch_size, HEIGHT_MAX - 50}
ToHeights == {1, batch_size, batch_size + 1, MaxBatches * batch_size, HEIGHT_MAX}

\* A NetworkSync inside perform_initial_sync, at the call of
\* sync_blocks(local_height, network_height).
SyncBlocksInit ==
    /\ LedgerInit
    /\ EngineInit
    /\ SystemInit
    /\ batches = <<<<>>, <<>>>>
    /\ digests = <<NoDigest, NoDigest>>
    /\ local_height \in FromHeights
    /\ network_height \in ToHeights
    /\ local_height < network_height
    /\ is_syncing = TRUE
    /\ sync_progress = <<0, 1>>
    /\ pending_requests = NoRequests
    /\ is_syncing_lock = "free"
    /\ sync_task = [c \in SyncCallers |->
                       IF c = "s1"
                       THEN [IdleTask EXCEPT !.pc = "sync_blocks",
                                             !.from_height = local_height,
                                             !.to_height = network_height,
                                             !.current_height = local_height]
                       ELSE IdleTask]
    /\ sync_uuid = 0
    /\ responded = {}
    /\ stopped = FALSE

SyncBlocksNext ==
    \/ sync_blocks_send("s1")
    \/ sync_blocks_progress("s1")
    \/ sync_blocks_complete("s1")
    \/ sync_blocks_return("s1")
    \/ \E request_id \in 1..(MaxRequests + 1) : handle_sync_response(request_id)

\* One call of sync_blocks, while responses arrive.
SpecSyncBlocks == SyncBlocksInit /\ [][SyncBlocksNext]_vars

BatchNext ==
    \E n \in LocalNodes :
        \/ start(n)
        \/ stop(n)
        \/ /\ Len(pending_transactions[n]) < MaxQueued
           /\ \E t \in Transactions : add_transaction_call(n, "c1", t)
        \/ pending_write_granted(n, "c1")
        \/ add_transaction_check(n, "c1")
        \/ initiate_consensus_round(n)

\* One engine, one task that submits transactions to it, and the rounds the
\* engine initiates from a queue shorter than the batch threshold.
SpecBatch == Init /\ [][BatchNext]_vars

(***************************************************************************)
(* Properties of the ledger.                                               *)
(***************************************************************************)
Errors ==
    {"Total supply overflow", "Account balance overflow", "Insufficient balance in ledger"}

RECURSIVE IssuedSum(_, _)
IssuedSum(es, i) ==
    IF i > Len(es) THEN 0
    ELSE (IF es[i].entry_type.kind = "Issuance" THEN es[i].entry_type.amount ELSE 0)
         + IssuedSum(es, i + 1)

BalancesEqual(b1, b2) ==
    \A a \in AccountIds : get_account_balance(b1, a) = get_account_balance(b2, a)

\* C1: the first entry's previous_hash is "genesis" and every later entry's
\* previous_hash is the hash of the entry before it, whatever the calls returned.
HashChainInvariant ==
    \A i \in 1..Len(entries) :
        entries[i].previous_hash = IF i = 1 THEN genesis ELSE entries[i - 1].hash

\* A chain of several entries whose latest call returned an error.
HashChainWitness ==
    /\ Len(entries) >= 2
    /\ result \in Errors

\* C2: get_total_supply() equals the sum of the amounts of the Issuance
\* entries in the entries list, in every reachable state.
SupplyInvariant ==
    get_total_supply = IssuedSum(entries, 1)

\* C3: after record_transfer returned the insufficient-balance error, the
\* entries list, every balance and total_supply are what they were before.
RejectedTransferLeavesLedgerUnchanged ==
    [][(op' = "record_transfer" /\ result' = "Insufficient balance in ledger") =>
          /\ entries' = entries
          /\ BalancesEqual(account_balances', account_balances)
          /\ total_supply' = total_supply]_vars

\* C4: after record_issuance returned an overflow error, the entries list,
\* total_supply and every balance are what they were before.
OverflowingIssuanceLeavesLedgerUnchanged ==
    [][(/\ op' = "record_issuance"
        /\ result' \in {"Total supply overflow", "Account balance overflow"}) =>
          /\ entries' = entries
          /\ BalancesEqual(account_balances', account_balances)
          /\ total_supply' = total_supply]_vars

\* C5: verify_integrity() is true on the empty ledger and after every
\* sequence of record_* calls, failed ones included.
VerifyIntegrityHolds ==
    verify_integrity(entries)

\* A full ledger that took a failed call and a successful one.
VerifyIntegrityWitness ==
    /\ Len(entries) = MaxEntries
    /\ result = "Ok"
    /\ total_supply < IssuedSum(entries, 1)

\* C6: once the stored hash or previous_hash of one entry was replaced by a
\* different value, verify_integrity() is false.
TamperEvidence ==
    tampered => ~verify_integrity(entries)

\* A ledger of several entries, one of them overwritten.
TamperWitness ==
    /\ tampered
    /\ Len(entries) >= 2

IsPrefix(s, t) ==
    /\ Len(s) <= Len(t)
    /\ SubSeq(t, 1, Len(s)) = s

\* C12: across every Ledger operation the entries list before the call is a
\* prefix of the entries list after it: no stored entry is removed, moved or
\* modified.
AppendOnly ==
    [][IsPrefix(entries, entries')]_vars

\* A ledger filled entry by entry, failed calls among them.
AppendOnlyWitness ==
    /\ Len(entries) = MaxEntries
    /\ op = "record_admin_action"
    /\ total_supply < IssuedSum(entries, 1)

\* The arguments of the record_* call that pushed the last entry.
LastCall(es) == es[Len(es)].entry_type

\* C14: record_transfer from A holding a to B # A of an amount b <= a returns
\* Ok, leaves A with a - b and B with its balance plus b, and leaves
\* total_supply as it was.
TransferMovesFunds ==
    [][(op' = "record_transfer" /\ Len(entries') > Len(entries)) =>
          LET from == LastCall(entries').party
              to == LastCall(entries').counterparty
              amount == LastCall(entries').amount
              a == get_account_balance(account_balances, from)
          IN  (from # to /\ amount <= a) =>
                  /\ result' = "Ok"
                  /\ get_account_balance(account_balances', from) = a - amount
                  /\ get_account_balance(account_balances', to) =
                         get_account_balance(account_balances, to) + amount
                  /\ total_supply' = total_supply]_vars

\* A transfer of a positive amount between two accounts went through.
TransferMovesFundsWitness ==
    /\ op = "record_transfer"
    /\ result = "Ok"
    /\ Len(entries) >= 2
    /\ LastCall(entries).party # LastCall(entries).counterparty
    /\ LastCall(entries).amount > 0

\* The step in which node n is handed the Commit that completes a quorum.
CommitStep(n) ==
    /\ Cardinality(round_log[n].commits) < quorum_size
    /\ Cardinality(round_log'[n].commits) >= quorum_size

\* C13: the entries list grows only in a step in which a node's round reaches
\* its Commit quorum; no other step appends an entry.
SingleWriter ==
    [][Len(entries') > Len(entries) => \E n \in NodeIds : CommitStep(n)]_vars

\* C23: once verify_integrity() is false for a ledger, no call appends a
\* further entry to it.
IntegrityFailureHaltsWrites ==
    [][~verify_integrity(entries) => Len(entries') <= Len(entries)]_vars

\* C24: verify_integrity(), get_entries(), get_total_supply() and
\* get_account_balance(id) leave entries, balances and total_supply as they
\* were, and what verify_integrity() returns is fixed by the entries alone, so
\* calling it again on an unchanged ledger returns the same.
ReadsArePure ==
    [][(op' \in ReadOps /\ (op' # op \/ result' # result)) =>
          /\ UNCHANGED <<entries, account_balances, total_supply>>
          /\ DOMAIN account_balances' = DOMAIN account_balances
          /\ op' = "verify_integrity" => result' = <<"Ok", verify_integrity(entries')>>]_vars

\* verify_integrity() was called on a ledger with an overwritten entry.
ReadsArePureWitness ==
    /\ op = "verify_integrity"
    /\ tampered
    /\ result = <<"Ok", FALSE>>

RECURSIVE BalanceSum(_, _)
BalanceSum(balances, ids) ==
    IF ids = {} THEN 0
    ELSE LET a == CHOOSE x \in ids : TRUE
         IN  balances[a] + BalanceSum(balances, ids \ {a})

\* C27: in every state the ledger reaches through its record_* calls, failed
\* ones and transfers to oneself included, the balances of all accounts add
\* up to total_supply, and no call has returned the balance-overflow error.
Conservation ==
    /\ BalanceSum(account_balances, DOMAIN account_balances) = total_supply
    /\ result # "Account balance overflow"

\* Money was issued, a transfer to oneself went through and a call failed,
\* with the whole supply on one account.
ConservationWitness ==
    /\ total_supply = U64_MAX
    /\ \E a \in DOMAIN account_balances : account_balances[a] = U64_MAX
    /\ \E i \in 1..Len(entries) :
           /\ entries[i].entry_type.kind = "Transfer"
           /\ entries[i].entry_type.party = entries[i].entry_type.counterparty
           /\ entries[i].entry_type.amount > 0
    /\ result \in Errors

HappyPathHandled(n) ==
    /\ round_log[n].pre_prepare.type = "PrePrepare"
    /\ Cardinality(round_log[n].prepares) >= quorum_size
    /\ Cardinality(round_log[n].commits) >= quorum_size

\* C8: once a node was handed the PrePrepare followed by 3 matching Prepares
\* and 3 matching Commits, a block is in committed_blocks, the height went
\* from 0 to 1 and the state is Idle.
HappyPathCommits ==
    \A n \in NodeIds :
        HappyPathHandled(n) =>
            /\ get_block_height(n) = 1
            /\ committed_blocks[n][1].merkle_root = round_log[n].pre_prepare.digest
            /\ state[n] = "Idle"

\* C9: once a node was handed a quorum of ViewChanges naming current_view + 1,
\* its current_view is that view, is_primary is recomputed for it and the
\* state is Idle.
ViewChangeAdopted ==
    \A n \in NodeIds :
        Cardinality(round_log[n].view_changes) >= quorum_size =>
            /\ current_view[n] = round_log[n].view + 1
            /\ is_primary[n] = update_primary_status(n, validators[n])
            /\ state[n] = "Idle"

\* C10: no call of add_transaction blocks forever: no task waits for the
\* queue's write lock while holding that lock itself, a wait nothing ends.
AddTransactionReturns ==
    \A n \in NodeIds, c \in Callers :
        ~(pc[n][c] = "round_pending_write" /\ pending_lock[n] = c)

\* A step of some add_transaction call on node n.
AddTransactionStep(n) ==
    \E c \in Callers : pc'[n][c] # pc[n][c]

\* C11: a step of an add_transaction call leaves the node's committed_blocks,
\* current_view, current_sequence and state as they were, and every other
\* field of the engine but the pending queue as well.
AddTransactionFrame ==
    [][\A n \in NodeIds :
          AddTransactionStep(n) =>
              /\ committed_blocks'[n] = committed_blocks[n]
              /\ current_view'[n] = current_view[n]
              /\ current_sequence'[n] = current_sequence[n]
              /\ state'[n] = state[n]
              /\ UNCHANGED engine_fields]_vars

\* Two calls on the started primary returned, their transactions queued.
AddTransactionFrameWitness ==
    \E n \in NodeIds :
        /\ is_primary[n]
        /\ Len(pending_transactions[n]) >= 2
        /\ pending_lock[n] = "free"
        /\ \A c \in Callers : pc[n][c] = "idle"

(***************************************************************************)
(* Properties of the AstorSystem and its managers.                         *)
(***************************************************************************)
\* C15: a successful AstorSystem::issue_currency raises the recipient's
\* account balance and the ledger's get_total_supply() by amount, and stores
\* an Issuance transaction that the id it returns retrieves.
IssueCurrencyCredits ==
    [][(/\ call'.op = "issue_currency"
        /\ call'.ok
        /\ call'.account_id \in DOMAIN accounts) =>
          /\ accounts'[call'.account_id].balance =
                 accounts[call'.account_id].balance + call'.amount
          /\ get_total_supply' = get_total_supply + call'.amount
          /\ \E i \in get_transaction(transactions', call'.value) :
                 transactions'[i].transaction_type.kind = "Issuance"]_vars

\* The caller of issue_currency is a registered, active administrator whose
\* signature over the action verifies.
Authorized(c) ==
    verify_admin_action(c.admin_id, "issue_currency", c.signature) = <<"Ok">>

\* C16: an issue_currency call whose admin_id is not a registered active
\* administrator, or whose signature does not verify, returns an error and
\* changes no money supply, no balance and no ledger state.
IssuanceIsAdminOnly ==
    [][(call'.op = "issue_currency" /\ ~Authorized(call')) =>
          /\ ~call'.ok
          /\ total_money_supply' = total_money_supply
          /\ monetary_policy_decisions' = monetary_policy_decisions
          /\ accounts' = accounts
          /\ UNCHANGED <<entries, account_balances, total_supply>>]_vars

\* C17: debit_account on an existing, unfrozen account whose balance is below
\* the amount returns InsufficientFunds and leaves every account's balance as
\* it was.
InsufficientFundsRejected ==
    [][(/\ call'.op = "debit_account"
        /\ call'.account_id \in DOMAIN accounts
        /\ ~accounts[call'.account_id].is_frozen
        /\ accounts[call'.account_id].balance < call'.amount) =>
          /\ ~call'.ok
          /\ call'.value = <<"InsufficientFunds">>
          /\ DOMAIN accounts' = DOMAIN accounts
          /\ \A a \in DOMAIN accounts : accounts'[a].balance = accounts[a].balance]_vars

\* A debit was refused for insufficient funds while both accounts held money.
InsufficientFundsWitness ==
    /\ call.op = "debit_account"
    /\ call.value = <<"InsufficientFunds">>
    /\ DOMAIN accounts = AccountIds
    /\ \A a \in AccountIds : accounts[a].balance > 0

\* C18: calculate_digest gives two batches that differ in content or in
\* order two different digests.
DigestBindsContent ==
    (/\ digests[1] # NoDigest
     /\ digests[2] # NoDigest
     /\ batches[1] # batches[2]) => digests[1] # digests[2]

ElementAt(ids, k) ==
    CHOOSE x \in ids : Cardinality({y \in ids : y < x}) = k

\* C21: once start has computed it, a node's is_primary is true exactly when
\* the node is the element at index current_view mod N of its sorted
\* validator set, N being the size of the set.
PrimarySelection ==
    [][\A n \in NodeIds :
          (validators'[n] # validators[n] \/ is_primary'[n] # is_primary[n]) =>
              /\ validators'[n] # {}
              /\ is_primary'[n] =
                     (n = ElementAt(validators'[n],
                                    current_view'[n] % Cardinality(validators'[n])))]_vars

\* A node that is not the least of several validators became primary of a
\* later view.
PrimarySelectionWitness ==
    \E n \in NodeIds :
        /\ is_primary[n]
        /\ current_view[n] > 0
        /\ Cardinality(validators[n]) >= 3
        /\ \E m \in validators[n] : m < n

ProposalGuard ==
    [][\A n \in NodeIds :
          /\ (\/ broadcast_log'[n] # broadcast_log[n]
              \/ Len(pending_transactions'[n]) < Len(pending_transactions[n])) =>
                 /\ is_primary[n]
                 /\ pending_transactions[n] # <<>>
          /\ \A c \in Callers :
                 (pc'[n][c] = "round_pending_write" /\ pc[n][c] # "round_pending_write") =>
                     /\ is_primary[n]
                     /\ Len(pending_transactions[n]) >= 10]_vars

\* A primary broadcast a proposal, and later a call of add_transaction met
\* the threshold.
ProposalGuardWitness ==
    \E n \in NodeIds, c \in Callers :
        /\ Len(broadcast_log[n]) >= 1
        /\ pc[n][c] = "round_pending_write"

\* The transactions of a list of proposals or blocks, in order.
RECURSIVE Flatten(_)
Flatten(items) ==
    IF items = <<>> THEN <<>>
    ELSE Head(items).transactions \o Flatten(Tail(items))

\* Every transaction node n accepted, in the order it went through the node:
\* committed blocks, then proposals, then the pending queue.
Accepted(n) ==
    Flatten(committed_blocks[n]) \o Flatten(broadcast_log[n]) \o pending_transactions[n]

Issued == {pending_requests[id] : id \in DOMAIN pending_requests} \cup responded

CeilDiv(a, b) == (a + b - 1) \div b

InPerformInitialSync == {"perform_initial_sync", "compare", "sync_blocks", "progress",
                         "complete"}

Syncing(tasks) == {c \in SyncCallers : tasks[c].pc \in InPerformInitialSync}

StopSyncHolds ==
    stopped => (~is_syncing /\ pending_requests = NoRequests)

====
